---- MODULE Spec2Model ----
(***************************************************************************)
(* The unconfirmed-transaction fee-escalation monitor ("bumpfee") of       *)
(* btcw_address_tools, src/unnamed/part_001 lines 170-374 (func main).     *)
(*                                                                         *)
(* The ledger node is the environment: every RPC answer is drawn from the  *)
(* shapes the code distinguishes (transport/RPC error, wrong type, missing *)
(* field, well-formed).                                                    *)
(*                                                                         *)
(* Numbers.  Fee rates are float64 in the code; here they are fixed-point  *)
(* integers counting 1/Scale sat/vB (Scale = 4: 5.25 sat/vB is 21).        *)
(* Absolute fees are integers counting 1e-8 coin (satoshi), so the code's  *)
(* "math.Abs(fee) * 1e8" is Abs of that integer.  Block heights are        *)
(* integers.                                                               *)
(***************************************************************************)
EXTENDS Integers, Sequences, FiniteSets, TLC

\* ------------------------------------------------------------- bounds
MaxHeight == 1      \* block heights 0..MaxHeight
MaxScan   == 2      \* outputs in one listunspent answer
MaxFee    == 12     \* calculator inputs: |fee| <= MaxFee satoshi
MaxHexLen == 6      \* calculator inputs: raw hex of 1..MaxHexLen characters
MaxRate   == 8      \* calculator inputs: rates up to MaxRate / Scale sat/vB

\* ------------------------------------------------------- number model
\* float64 fee rates (TxInfo.CurrentFeerate, FeeBumpAmount, FeeCap) count
\* 1/Scale sat/vB.
Scale == 4

Abs(x) == IF x < 0 THEN -x ELSE x

\* math.Round: nearest integer, halves away from zero; q counts 1/Scale.
Round(q) ==
    IF q >= 0 THEN (2 * q + Scale) \div (2 * Scale)
    ELSE -((2 * (-q) + Scale) \div (2 * Scale))

\* ------------------------------------------------------ pure functions
\* feerate := math.Abs(fee) * 1e8 / float64(len(hex)) * 2
FeerateNoDouble(fee, hexLen) == (Abs(fee) * Scale) \div hexLen
Feerate(fee, hexLen) == (Abs(fee) * 2 * Scale) \div hexLen

\* newFeerate := CurrentFeerate + FeeBumpAmount; if > FeeCap then FeeCap
CandidateAlwaysCap(r, a, c) == c
CandidateSubtracts(r, a, c) == IF r - a > c THEN c ELSE r - a
Candidate(r, a, c) == IF r + a > c THEN c ELSE r + a

\* int(currentBlockCount) - info.FirstBlockHeight >= BumpfeeBlockInterval
AgeReachedStrictly(cur, first, interval) == cur - first > interval
AgeReached(cur, first, interval) == cur - first >= interval

\* newFeerate - info.CurrentFeerate >= 1
IncrementOKPositive(newFeerate, r) == newFeerate - r > 0
IncrementOK(newFeerate, r) == newFeerate - r >= 1 * Scale

\* ------------------------------------------------------------ the store
Txids == {"t1", "t2"}
WalletNames == {"w1", "w2"}

\* &TxInfo{WalletName, FirstBlockHeight, CurrentFeerate}
TxInfoZeroHeight(walletName, height, feerate) ==
    [WalletName |-> walletName, FirstBlockHeight |-> 0,
     CurrentFeerate |-> feerate]
TxInfo(walletName, height, feerate) ==
    [WalletName |-> walletName, FirstBlockHeight |-> height,
     CurrentFeerate |-> feerate]

\* txInfos[txid] = info
StorePut(store, txid, info) ==
    [t \in DOMAIN store \cup {txid} |-> IF t = txid THEN info ELSE store[t]]

\* delete(txInfos, txid)
StoreDelete(store, txid) == [t \in DOMAIN store \ {txid} |-> store[t]]

\* info, exists := txInfos[txid]
ExistsNever(store, txid) == FALSE
Exists(store, txid) == txid \in DOMAIN store

EmptyStore == [t \in {} |-> TxInfo("w1", 0, 0)]

\* --------------------------------------------------------- configuration
\* Config{IsBump, BumpfeeBlockInterval, FeeBumpAmount, FeeCap}: read once
\* from config.yaml, never written again.  The policies cover the spec's
\* scenario (+2.0 capped at 10.0), a negative increment, a cap that is no
\* integer and lies below a tracked rate (6.75), and a +1.0 increment.
Policies ==
    { [a |-> 2 * Scale,  c |-> 10 * Scale],
      [a |-> -1 * Scale, c |-> 10 * Scale],
      [a |-> 2 * Scale,  c |-> 6 * Scale + 3],
      [a |-> 1 * Scale,  c |-> 10 * Scale] }

Configs ==
    { [IsBump |-> b, BumpfeeBlockInterval |-> i,
       FeeBumpAmount |-> p.a, FeeCap |-> p.c] :
         b \in BOOLEAN, i \in {0, 1}, p \in Policies }

\* ------------------------------------------------------------ the ledger
\* What the node answers.  A transaction's fee and raw hex are fixed by its
\* txid: t1 pays 1050 sat for 200 bytes (5.25 sat/vB), t2 pays 1900 sat for
\* 200 bytes (9.5 sat/vB).  gettransaction reports the fee of a send as a
\* negative amount; the hex of a transaction is never empty.
TxFee(t) == IF t = "t1" THEN -1050 ELSE -1900

TxHexLen(t) == 400

\* bumpfee's "txid" result: the replacement transaction.
Replacement(t) == IF t = "t1" THEN "t2" ELSE "t1"

NotString == "#notstring"
BadOutput == "#badoutput"

\* listwallets: error, a result that is no list, or a list of names.
WalletLists == { <<"w1", "w2">>, <<NotString, "w1">> }

ListWalletsAnswers ==
    { [kind |-> k, list |-> <<>>] : k \in {"error", "notlist"} }
      \cup { [kind |-> "ok", list |-> l] : l \in WalletLists }

\* listunspent: error, no list, or up to MaxScan outputs; an output is the
\* txid it carries, or BadOutput (no object, or no string txid).  A
\* malformed output is skipped whatever follows it, so the lists carry it in
\* first place only.
RECURSIVE SeqsUpTo(_, _)
SeqsUpTo(S, n) ==
    IF n = 0 THEN { <<>> }
    ELSE LET shorter == SeqsUpTo(S, n - 1)
         IN shorter \cup { Append(q, x) : q \in shorter, x \in S }

Scans ==
    SeqsUpTo(Txids, MaxScan)
      \cup { <<BadOutput>> \o q : q \in SeqsUpTo(Txids, MaxScan - 1) }

GetTxAnswers == {"error", "notobject", "nofee", "nohex", "ok"}

BumpAnswers == {"error", "notobject", "notxid", "ok"}

\* ---------------------------------------------------------------- state
VARIABLES
    config,             \* Config, immutable
    pc,                 \* position of main: start, poll, wallets, outputs, sleep
    wallets,            \* the []interface{} of listwallets
    chain,              \* the ledger's block height (environment)
    currentBlockCount,  \* height fetched by this cycle
    lastBlockHeight,    \* height cursor, -1 before the first cycle ends
    wi,                 \* index of the wallet being processed
    unspent,            \* outputs of the listunspent answer still to process
    txInfos,            \* map[string]*TxInfo
    last,               \* what the latest step did (RPCs issued, log lines)
    cycleCalls,         \* history: bumpfee calls per txid in this cycle
    okCalls,            \* history: bumpfee calls answered without error, per txid
    simNow,             \* history: txids with a simulated bump in this cycle
    simEarlier,         \* history: txids with a simulated bump in an earlier cycle
    failed,             \* history: tracked txids whose latest bumpfee errored
    track,              \* whether firstScan and gtFailed are recorded, immutable
    firstScan,          \* history: height of the first cycle whose scan had the txid
    gtFailed,           \* history: txids whose gettransaction failed in this cycle
    calc,               \* the pure calculations on their own: inputs, result
    sender              \* the send-many tool (cmd/sendmany): its whole state

monVars == <<config, pc, wallets, chain, currentBlockCount, lastBlockHeight,
             wi, unspent, txInfos, last, cycleCalls, okCalls, simNow,
             simEarlier, failed, track, firstScan, gtFailed>>

vars == <<monVars, calc, sender>>

\* The record of a step; a step that handles no output leaves the output
\* fields at their defaults.
Ev(op) ==
    [op |-> op, txid |-> "-", wallet |-> "-", gettx |-> "none",
     created |-> FALSE, branch |-> "none", bump |-> "none", retry |-> FALSE,
     rate |-> 0, newTxid |-> "-", reports |-> {}]

CalcIdle == [op |-> "idle", x |-> 0, y |-> 0, z |-> 0, out |-> 0,
             done |-> FALSE]

\* The send-many tool is a program of its own: it stands still in the
\* specifications of the monitor.
SenderIdle == [pc |-> "idle"]

\* History counters count 0, 1, "2 or more".
Bump1(n) == IF n >= 2 THEN 2 ELSE n + 1

\* ----------------------------------------------------------------- Init
\* main up to line 208: config read, txInfos empty, lastBlockHeight -1.
MonInit ==
    /\ pc = "start"
    /\ wallets = <<>>
    /\ chain = 0
    /\ currentBlockCount = -1
    /\ lastBlockHeight = -1
    /\ wi = 0
    /\ unspent = <<>>
    /\ txInfos = EmptyStore
    /\ last = Ev("start")
    /\ cycleCalls = [t \in Txids |-> 0]
    /\ okCalls = [t \in Txids |-> 0]
    /\ simNow = {}
    /\ simEarlier = {}
    /\ failed = {}
    /\ firstScan = [t \in Txids |-> -1]
    /\ gtFailed = {}

Init ==
    /\ config \in Configs
    /\ MonInit
    /\ track = FALSE
    /\ calc = CalcIdle
    /\ sender = SenderIdle

\* ------------------------------------------------------------- startup
\* Lines 210-218: listwallets, once.  An error leaves walletListResp nil and
\* the type assertion of a nil or non-list result leaves wallets nil; both
\* are logged and main goes on.
WalletsOf(ans) == IF ans.kind = "ok" THEN ans.list ELSE <<>>

ListWallets ==
    /\ pc = "start"
    /\ \E ans \in ListWalletsAnswers :
         /\ wallets' = WalletsOf(ans)
         /\ last' = [Ev("listwallets") EXCEPT !.gettx = ans.kind]
    /\ pc' = "poll"
    /\ UNCHANGED <<config, chain, currentBlockCount, lastBlockHeight, wi,
                   unspent, txInfos, cycleCalls, okCalls, simNow,
                   simEarlier, failed, calc, sender, track, firstScan, gtFailed>>

\* A failed RPC inside the poll loop is logged with sugar.Infof and the
\* loop it is in goes on with "continue" (lines 228-240, 256-265): control
\* stays in the loop, at position `loop`.
AfterFailureExits(rpc, loop) == "exit"
AfterFailure(rpc, loop) == loop

\* ------------------------------------------------------- getblockcount
\* Lines 225-245: the head of the poll loop.  An error or a result that is
\* no number "continue"s the for loop at once (line 372 is not reached); a
\* height starts the wallet loop.  The ledger's height never decreases and
\* stays within MaxHeight.
GetBlockCount ==
    /\ pc = "poll"
    /\ \/ \E ans \in {"error", "notnumber"} :
            /\ last' = [Ev("getblockcount") EXCEPT !.gettx = ans]
            /\ pc' = AfterFailure("getblockcount", pc)
            /\ UNCHANGED <<chain, currentBlockCount, wi, simNow,
                           simEarlier>>
       \/ \E h \in chain..MaxHeight :
            /\ chain' = h
            /\ currentBlockCount' = h
            /\ pc' = "wallets"
            /\ wi' = 1
            /\ simEarlier' = simEarlier \cup simNow
            /\ simNow' = {}
            /\ last' = [Ev("getblockcount") EXCEPT !.gettx = "ok"]
    /\ UNCHANGED <<config, wallets, lastBlockHeight, unspent, txInfos,
                   cycleCalls, okCalls, failed, calc, sender, track, firstScan,
                   gtFailed>>

\* ------------------------------------------------------------ one wallet
\* Lines 247-265: a wallet name that is no string, a listunspent error and
\* a result that is no list each skip the wallet; a list is then walked
\* output by output.  An empty list ends the wallet at once.
\* "continue" in the loop over wallets (lines 251, 259, 264): the wallet at
\* index i of n is left for the next one.
NextWalletBreaks(i, n) == n + 1
NextWallet(i, n) == i + 1

\* for _, wallet := range wallets (line 247): the wallet at index i.
WalletAtRelisted(ws, i) == <<"w1", "w2">>[i]
WalletAt(ws, i) == ws[i]

\* History: the txids of a scan result are seen at the cycle's height.
Scanned(list) ==
    IF track
    THEN [t \in Txids |->
            IF firstScan[t] = -1 /\ \E i \in 1..Len(list) : list[i] = t
            THEN currentBlockCount ELSE firstScan[t]]
    ELSE firstScan

ScanWallet ==
    /\ pc = "wallets"
    /\ wi <= Len(wallets)
    /\ LET walletName == WalletAt(wallets, wi)
       IN IF walletName = NotString
          THEN /\ wi' = NextWallet(wi, Len(wallets))
               /\ last' = [Ev("scan") EXCEPT !.gettx = "notstring"]
               /\ UNCHANGED <<pc, unspent, firstScan>>
          ELSE \/ \E ans \in {"error", "notlist"} :
                    /\ wi' = NextWallet(wi, Len(wallets))
                    /\ last' = [Ev("scan") EXCEPT !.wallet = walletName,
                                                  !.gettx = ans]
                    /\ pc' = AfterFailure("listunspent", pc)
                    /\ UNCHANGED <<unspent, firstScan>>
               \/ \E list \in Scans :
                    /\ last' = [Ev("scan") EXCEPT !.wallet = walletName,
                                                  !.gettx = "ok"]
                    /\ firstScan' = Scanned(list)
                    /\ IF list = <<>>
                       THEN wi' = wi + 1 /\ UNCHANGED <<pc, unspent>>
                       ELSE /\ unspent' = list
                            /\ pc' = "outputs"
                            /\ UNCHANGED wi
    /\ UNCHANGED <<config, wallets, chain, currentBlockCount, lastBlockHeight,
                   txInfos, cycleCalls, okCalls, simNow, simEarlier, failed,
                   calc, sender, track, gtFailed>>

\* ------------------------------------------------------------ one output
\* The store after the bumpfee call (lines 337-354): an error, a result
\* that is no object and a result without a string txid each "continue";
\* only a well-formed answer deletes the old txid.  newTxid is only logged.
AfterBumpNeverDeletes(store, txid, answer, newTxid) == store
AfterBumpTracksNew(store, txid, answer, newTxid) ==
    IF answer = "ok"
    THEN StorePut(StoreDelete(store, txid), newTxid, store[txid])
    ELSE store
AfterBumpAlwaysDeletes(store, txid, answer, newTxid) ==
    StoreDelete(store, txid)
AfterBumpDeletesUnlessError(store, txid, answer, newTxid) ==
    IF answer = "error" THEN store ELSE StoreDelete(store, txid)
AfterBumpDeletesOnError(store, txid, answer, newTxid) ==
    IF answer \in {"ok", "error"} THEN StoreDelete(store, txid) ELSE store
AfterBump(store, txid, answer, newTxid) ==
    IF answer = "ok" THEN StoreDelete(store, txid) ELSE store

\* The store after a simulated bump (lines 355-360, IsBump false).
AfterDryRunKeeps(store, txid) == store
AfterDryRun(store, txid) == StoreDelete(store, txid)

\* The store after the "No bumped" branch (lines 361-365; the delete at
\* line 365 is commented out).
AfterSmallDeletes(store, txid) == StoreDelete(store, txid)
AfterSmallRestartsAge(store, txid) ==
    [store EXCEPT ![txid].FirstBlockHeight = currentBlockCount,
                  ![txid].CurrentFeerate = @ + 1]
AfterSmall(store, txid) == store

\* Lines 316-325: with a height that differs from a cursor that is not -1,
\* one report per tracked transaction of the wallet being processed.
AgeReportsAnyWallet(store, walletName, cur, cursor) ==
    IF cur # cursor
    THEN { <<t, cur - store[t].FirstBlockHeight>> : t \in DOMAIN store }
    ELSE {}
AgeReports(store, walletName, cur, cursor) ==
    IF cur # cursor /\ cursor # -1
    THEN { <<t, cur - store[t].FirstBlockHeight>> :
             t \in { x \in DOMAIN store : store[x].WalletName = walletName } }
    ELSE {}

\* The for loop over unspent moves on; after the last output the wallet
\* loop moves on.
Advance ==
    /\ unspent' = Tail(unspent)
    /\ IF Len(unspent) > 1
       THEN UNCHANGED <<pc, wi>>
       ELSE pc' = "wallets" /\ wi' = wi + 1

\* Lines 315-366 for an output whose txid is tracked in `store` (found, or
\* just created): age report, escalation test, bumpfee or simulation.
Evaluate(txid, walletName, store, ev0) ==
    LET info == store[txid]
        ev1 == [ev0 EXCEPT !.reports = AgeReports(store, walletName,
                                          currentBlockCount, lastBlockHeight)]
        newFeerate == Candidate(info.CurrentFeerate, config.FeeBumpAmount,
                                config.FeeCap)
        newFeerateRounded == Round(newFeerate)
    IN IF ~AgeReached(currentBlockCount, info.FirstBlockHeight,
                      config.BumpfeeBlockInterval)
       THEN /\ txInfos' = store
            /\ last' = [ev1 EXCEPT !.branch = "young"]
            /\ UNCHANGED <<cycleCalls, okCalls, simNow, failed>>
       ELSE IF ~IncrementOK(newFeerate, info.CurrentFeerate)
       THEN /\ txInfos' = AfterSmall(store, txid)
            /\ last' = [ev1 EXCEPT !.branch = "small"]
            /\ UNCHANGED <<cycleCalls, okCalls, simNow, failed>>
       ELSE IF config.IsBump
       THEN \E answer \in BumpAnswers :
              /\ txInfos' = AfterBump(store, txid, answer, Replacement(txid))
              /\ last' = [ev1 EXCEPT !.branch = "bump", !.bump = answer,
                            !.retry = txid \in failed,
                            !.rate = newFeerateRounded,
                            !.newTxid = IF answer = "ok"
                                        THEN Replacement(txid) ELSE "-"]
              /\ cycleCalls' = [cycleCalls EXCEPT ![txid] = Bump1(@)]
              /\ okCalls' = IF answer = "error" THEN okCalls
                            ELSE [okCalls EXCEPT ![txid] = Bump1(@)]
              /\ failed' = IF answer = "error" THEN failed \cup {txid}
                           ELSE failed \ {txid}
              /\ UNCHANGED simNow
       ELSE /\ txInfos' = AfterDryRun(store, txid)
            /\ last' = [ev1 EXCEPT !.branch = "bump", !.bump = "dry",
                          !.rate = newFeerateRounded]
            /\ simNow' = simNow \cup {txid}
            /\ UNCHANGED <<cycleCalls, okCalls, failed>>

\* Lines 267-367: the body of the loop over unspent, for its next output.
ProcessOutput ==
    /\ pc = "outputs"
    /\ unspent # <<>>
    /\ Advance
    /\ LET u == Head(unspent)
           walletName == WalletAt(wallets, wi)
           ev == [Ev("output") EXCEPT !.wallet = walletName]
       IN IF u = BadOutput
          THEN \* lines 268-277: no object, or no string txid
               /\ last' = [ev EXCEPT !.gettx = "badoutput"]
               /\ UNCHANGED <<txInfos, cycleCalls, okCalls, simNow, failed,
                              gtFailed>>
          ELSE IF Exists(txInfos, u)
          THEN /\ Evaluate(u, walletName, txInfos, [ev EXCEPT !.txid = u])
               /\ UNCHANGED gtFailed
          ELSE \* lines 281-313: gettransaction, then a new TxInfo
               \E g \in GetTxAnswers :
                 IF g # "ok"
                 THEN /\ last' = [ev EXCEPT !.txid = u, !.gettx = g]
                      /\ gtFailed' = IF track THEN gtFailed \cup {u}
                                     ELSE gtFailed
                      /\ UNCHANGED <<txInfos, cycleCalls, okCalls, simNow,
                                     failed>>
                 ELSE /\ Evaluate(u, walletName,
                           StorePut(txInfos, u,
                             TxInfo(walletName, currentBlockCount,
                                    Feerate(TxFee(u), TxHexLen(u)))),
                           [ev EXCEPT !.txid = u, !.gettx = "ok",
                                      !.created = TRUE])
                      /\ UNCHANGED gtFailed
    /\ UNCHANGED <<config, wallets, chain, currentBlockCount, lastBlockHeight,
                   simEarlier, calc, sender, track, firstScan>>

\* ------------------------------------------------------- end of a cycle
\* Line 369: after the last wallet the cursor takes the cycle's height.
\* lastBlockHeight = int64(currentBlockCount)
CursorOfNextBlock(height) == height + 1
CursorOf(height) == height

EndCycle ==
    /\ pc = "wallets"
    /\ wi > Len(wallets)
    /\ lastBlockHeight' = CursorOf(currentBlockCount)
    /\ pc' = "sleep"
    /\ wi' = 0
    /\ last' = Ev("endcycle")
    /\ cycleCalls' = [t \in Txids |-> 0]
    /\ gtFailed' = {}
    /\ UNCHANGED <<config, wallets, chain, currentBlockCount, unspent,
                   txInfos, okCalls, simNow, simEarlier, failed, calc, sender, track,
                   firstScan>>

\* Line 372: time.Sleep(BlockCheckInterval seconds), then the next cycle.
Sleep ==
    /\ pc = "sleep"
    /\ pc' = "poll"
    /\ last' = Ev("sleep")
    /\ UNCHANGED <<config, wallets, chain, currentBlockCount, lastBlockHeight,
                   wi, unspent, txInfos, cycleCalls, okCalls, simNow,
                   simEarlier, failed, calc, sender, track, firstScan, gtFailed>>

Next ==
    \/ ListWallets
    \/ GetBlockCount
    \/ ScanWallet
    \/ ProcessOutput
    \/ EndCycle
    \/ Sleep

Spec == Init /\ [][Next]_vars

\* The monitor with the scan history recorded, under the spec's scenario
\* policy (+2.0 capped at 10.0, one block between bumps), in both modes.
HistConfigs ==
    { c \in Configs : /\ c.FeeBumpAmount = 2 * Scale
                      /\ c.FeeCap = 10 * Scale
                      /\ c.BumpfeeBlockInterval = 1 }

InitHist ==
    /\ config \in HistConfigs
    /\ MonInit
    /\ track = TRUE
    /\ calc = CalcIdle
    /\ sender = SenderIdle

SpecHist == InitHist /\ [][Next]_vars

\* The monitor as a running process: main never returns, so a step that can
\* be taken is taken (weak fairness of Next).  The scenario configuration
\* with real bumps is enough to meet every RPC.
LiveConfigs == { c \in HistConfigs : c.IsBump }

InitLive ==
    /\ config \in LiveConfigs
    /\ MonInit
    /\ track = FALSE
    /\ calc = CalcIdle
    /\ sender = SenderIdle

SpecLive == InitLive /\ [][Next]_vars /\ WF_vars(Next)

\* The same process with a ledger that does not fail for ever: a
\* getblockcount call that keeps being made is answered with a height.
HeightAnswered == GetBlockCount /\ last'.gettx = "ok"

SpecLiveAnswered == SpecLive /\ WF_vars(HeightAnswered)

\* The same process with a ledger on which retrying pays: a listunspent
\* call that keeps being made comes to carry t1 (first among the outputs
\* left to process), and a bumpfee call that keeps being made comes to be
\* answered with a replacement txid.
ScanCarriesT1 ==
    /\ ScanWallet
    /\ last'.gettx = "ok"
    /\ unspent' # <<>> /\ Head(unspent') = "t1"

BumpAnswered == ProcessOutput /\ last'.bump = "ok"

SpecLiveRetry ==
    SpecLiveAnswered /\ SF_vars(ScanCarriesT1) /\ SF_vars(BumpAnswered)

\* ------------------------------------------------ the calculations alone
\* The fee estimate (line 304) and the candidate rate (lines 328-331) are
\* pure: SpecCalc applies each to every input of a bounded range.  x, y, z
\* are (fee, len(hex), -) for the estimate and (CurrentFeerate,
\* FeeBumpAmount, FeeCap) for the candidate.
CalcInputs ==
    { [op |-> "feerate", x |-> f, y |-> n, z |-> 0, out |-> 0,
       done |-> FALSE] : f \in -MaxFee..MaxFee, n \in 1..MaxHexLen }
      \cup
    { [op |-> "candidate", x |-> r, y |-> a, z |-> c, out |-> 0,
       done |-> FALSE] :
         r \in 0..MaxRate, a \in -MaxRate..MaxRate, c \in -1..MaxRate }

InitCalc ==
    /\ config = [IsBump |-> FALSE, BumpfeeBlockInterval |-> 0,
                 FeeBumpAmount |-> 0, FeeCap |-> 0]
    /\ MonInit
    /\ track = FALSE
    /\ calc \in CalcInputs
    /\ sender = SenderIdle

Estimate ==
    /\ calc.op = "feerate"
    /\ ~calc.done
    /\ calc' = [calc EXCEPT !.out = Feerate(calc.x, calc.y), !.done = TRUE]
    /\ UNCHANGED <<monVars, sender>>

Escalate ==
    /\ calc.op = "candidate"
    /\ ~calc.done
    /\ calc' = [calc EXCEPT !.out = Candidate(calc.x, calc.y, calc.z),
                            !.done = TRUE]
    /\ UNCHANGED <<monVars, sender>>

NextCalc ==
    \/ Estimate
    \/ Escalate

SpecCalc == InitCalc /\ [][NextCalc]_vars

\* ====================================================================
\* The send-many tool (src/address/cmd/sendmany/main.go)
\* ====================================================================
\* A program of its own, with the same ledger behind the RPC endpoint.  Its
\* state is the record `sender`: config, wallets, the loop positions and
\* sendCount are the variables of main; calls counts the sendmany requests
\* issued (0, 1, "2 or more"), last describes the latest step.

\* The fields of the configuration that main's loop reads.  maxUnconfSize 0
\* never lets a wallet send; 300 lets a wallet send while the sizes it
\* adds up stay under one and a half transactions.
SendConfigs ==
    { [MaxSendCount |-> m, IsSend |-> s, MaxUnconfSize |-> u] :
        m \in -1..2, s \in BOOLEAN, u \in {0, 300} }

\* gettransaction for an unspent output's txid: an error, a result that is
\* no object, an object without a string "hex", or the transaction.
SendGetTxAnswers == {"ok", "error", "notobject", "nohex"}

\* An element of a listunspent result: the txid it carries together with
\* what gettransaction answers for it, or BadOutput in place of the txid (no
\* object, or no string txid), for which nothing is asked.
SendOutputs ==
    { [txid |-> t, gt |-> g] : t \in Txids, g \in SendGetTxAnswers }
      \cup { [txid |-> BadOutput, gt |-> "none"] }

\* listunspent: error, a result that is no list, or up to MaxScan outputs.
SendUnspentAnswers ==
    { [kind |-> k, list |-> <<>>] : k \in {"error", "notlist"} }
      \cup { [kind |-> "ok", list |-> l] : l \in SeqsUpTo(SendOutputs, MaxScan) }

\* sendmany: an error, a result that is no object, an object without a
\* string txid, or the txid of the transaction made.
SendManyAnswers == {"ok", "error", "notobject", "notxid"}

\* Lines 220-244: the sizes of the transactions of the outputs, added up
\* output by output; an output whose gettransaction gave no hex adds
\* nothing.
RECURSIVE TotalUnconfirmedSize(_)
TotalUnconfirmedSize(list) ==
    IF list = <<>> THEN 0
    ELSE LET o == Head(list)
             size == IF o.txid # BadOutput /\ o.gt = "ok"
                     THEN TxHexLen(o.txid) \div 2 ELSE 0
         IN size + TotalUnconfirmedSize(Tail(list))

\* What a wallet step leaves for the properties: the wallet, the txids its
\* listunspent answer carried, the size the step added up, and what it did.
SendEv(op) ==
    [op |-> op, wallet |-> "", txids |-> {}, total |-> 0, sent |-> "none"]

\* main up to line 166: the configuration is read, nothing is called yet.
SenderStart(cfg) ==
    [config |-> cfg, pc |-> "start", wallets |-> <<>>, wi |-> 0,
     sendCount |-> 0, calls |-> 0, last |-> SendEv("start")]

\* sugar.Fatalf logs and exits the process.
Fatal(s, ev) == [s EXCEPT !.pc = "fatal", !.last = ev]

\* Lines 167-193: listwallets and the address file; each failure is fatal.
SendStart ==
    /\ sender.pc = "start"
    /\ \E ans \in ListWalletsAnswers, addressesRead \in BOOLEAN :
         sender' =
           IF ans.kind # "ok" \/ ~addressesRead
           THEN Fatal(sender, SendEv("listwallets"))
           ELSE [sender EXCEPT !.pc = "loop", !.wallets = ans.list,
                               !.sendCount = 0,
                               !.last = SendEv("listwallets")]
    /\ UNCHANGED <<monVars, calc>>

\* Line 195: the head of the outer loop; main returns when it fails.
SendLoop ==
    /\ sender.pc = "loop"
    /\ sender' =
         IF sender.sendCount < sender.config.MaxSendCount
         THEN [sender EXCEPT !.pc = "wallets", !.wi = 1]
         ELSE [sender EXCEPT !.pc = "done"]
    /\ UNCHANGED <<monVars, calc>>

EnoughAbove(sendCount, max) == sendCount > max

\* Line 272: the test after a counted send.
Enough(sendCount, max) == sendCount >= max

\* Lines 266/269 and 271-275: count the send, exit when there are enough.
Counted(s, ev) ==
    LET n == s.sendCount + 1
    IN [s EXCEPT !.sendCount = n,
                 !.pc = IF Enough(n, s.config.MaxSendCount)
                        THEN "exit" ELSE "wallets",
                 !.wi = s.wi + 1,
                 !.last = ev]

\* Lines 199-293: one wallet of the list.
SendWallet ==
    /\ sender.pc = "wallets"
    /\ sender.wi <= Len(sender.wallets)
    /\ LET w == sender.wallets[sender.wi]
           cfg == sender.config
           next == [sender EXCEPT !.wi = sender.wi + 1]
           ev(list, sent) ==
               [op |-> "wallet", wallet |-> w,
                txids |-> { list[i].txid : i \in DOMAIN list } \ {BadOutput},
                total |-> TotalUnconfirmedSize(list), sent |-> sent]
       IN IF w = NotString
          THEN sender' = [next EXCEPT !.last = ev(<<>>, "noname")]
          ELSE \E ans \in SendUnspentAnswers :
                 CASE ans.kind = "error" ->
                        sender' = Fatal(sender, ev(<<>>, "unspenterror"))
                   [] ans.kind = "notlist" ->
                        sender' = [next EXCEPT !.last = ev(<<>>, "notlist")]
                   [] OTHER ->
                        IF TotalUnconfirmedSize(ans.list) < cfg.MaxUnconfSize
                        THEN IF cfg.IsSend
                             THEN \E sm \in SendManyAnswers :
                                    LET called ==
                                          [sender EXCEPT
                                             !.calls = Bump1(sender.calls)]
                                    IN sender' =
                                         CASE sm = "error" ->
                                                [called EXCEPT
                                                   !.wi = sender.wi + 1,
                                                   !.last = ev(ans.list, sm)]
                                           [] sm = "ok" ->
                                                Counted(called,
                                                        ev(ans.list, sm))
                                           [] OTHER ->
                                                Fatal(called,
                                                      ev(ans.list, sm))
                             ELSE sender' = Counted(sender,
                                                    ev(ans.list, "dry"))
                        ELSE sender' =
                               [next EXCEPT !.last = ev(ans.list, "skipped")]
    /\ UNCHANGED <<monVars, calc>>

\* Line 295: the wallets are done; sleep, then the head of the loop.
SendSleep ==
    /\ sender.pc = "wallets"
    /\ sender.wi > Len(sender.wallets)
    /\ sender' = [sender EXCEPT !.pc = "loop", !.last = SendEv("sleep")]
    /\ UNCHANGED <<monVars, calc>>

InitSend ==
    /\ config = [IsBump |-> FALSE, BumpfeeBlockInterval |-> 0,
                 FeeBumpAmount |-> 0, FeeCap |-> 0]
    /\ MonInit
    /\ track = FALSE
    /\ calc = CalcIdle
    /\ sender \in { SenderStart(cfg) : cfg \in SendConfigs }

NextSend ==
    \/ SendStart
    \/ SendLoop
    \/ SendWallet
    \/ SendSleep

SpecSend == InitSend /\ [][NextSend]_vars

\* ====================================================================
\* Properties
\* ====================================================================
\* The terms of the claims, read off the state before a step.
Processing(t) == pc = "outputs" /\ unspent # <<>> /\ Head(unspent) = t

Tracked(t) == t \in DOMAIN txInfos

Min(x, y) == IF x <= y THEN x ELSE y

AgeMet(t) ==
    currentBlockCount - txInfos[t].FirstBlockHeight
        >= config.BumpfeeBlockInterval

\* candidateRate - feeRate, with candidateRate = min(feeRate + a, c)
DeltaOf(t) ==
    Min(txInfos[t].CurrentFeerate + config.FeeBumpAmount, config.FeeCap)
        - txInfos[t].CurrentFeerate

Qualifies(t) == Tracked(t) /\ AgeMet(t) /\ DeltaOf(t) >= Scale

\* C1 (as claimed): with apply enabled, a transaction that qualifies in a
\* cycle gets exactly one bumpfee call in that cycle: no txid has two calls
\* in one cycle, and the txid of a step that took the bump branch has one.
C1_ExactlyOneBumpPerCycle ==
    config.IsBump =>
        /\ \A t \in Txids : cycleCalls[t] <= 1
        /\ (last.op = "output" /\ last.branch = "bump")
              => cycleCalls[last.txid] = 1

\* C2 (as claimed): with apply enabled, no txid ever gets two bumpfee calls
\* that the ledger answers without an error.
C2_OneAnsweredBumpPerTxid ==
    config.IsBump => \A t \in Txids : okCalls[t] <= 1

\* C3 (as claimed): in dry-run mode, a txid whose entry was removed by a
\* simulated bump in an earlier cycle has no simulated bump in this cycle.
C3_DryRunNeverReproposes ==
    ~config.IsBump => simNow \cap simEarlier = {}

\* C4 (as claimed): the candidate rate is never negative and never below
\* the tracked rate r, for every r, a and c.
C4_CandidateNeverBelowRate ==
    (calc.done /\ calc.op = "candidate")
        => (calc.out >= 0 /\ calc.out >= calc.x)

\* C4 (amended): for a >= 0 and c >= r the candidate rate is neither
\* negative nor below the tracked rate r (r itself is never negative).
C4_CandidateAtLeastRateWhenCapAbove ==
    (calc.done /\ calc.op = "candidate" /\ calc.y >= 0 /\ calc.z >= calc.x)
        => (calc.out >= 0 /\ calc.out >= calc.x)

C4_Witness ==
    /\ calc.done /\ calc.op = "candidate"
    /\ calc.y > 0 /\ calc.z >= calc.x /\ calc.x + calc.y > calc.z
    /\ calc.out = calc.z

\* C5 (as claimed): for a non-empty hex of even length the stored estimate
\* is abs(fee) * UNIT_SCALE / size * 2 with size = len(hex) / 2.
C5_EstimateIsTwiceFeePerByte ==
    (calc.done /\ calc.op = "feerate" /\ calc.y % 2 = 0)
        => calc.out = (Abs(calc.x) * Scale * 2) \div (calc.y \div 2)

\* C5 (amended): for a non-empty hex of even length the stored estimate is
\* abs(fee) * UNIT_SCALE / size with size = len(hex) / 2: the code divides
\* by len(hex) and doubles, which is the fee per byte, not twice it.
C5_EstimateIsFeePerByte ==
    (calc.done /\ calc.op = "feerate" /\ calc.y % 2 = 0)
        => calc.out = (Abs(calc.x) * Scale) \div (calc.y \div 2)

C5_Witness ==
    /\ calc.done /\ calc.op = "feerate"
    /\ calc.y % 2 = 0 /\ calc.x < 0 /\ calc.out > 0

\* C6: a step that processes a tracked transaction whose age meets the
\* threshold while candidateRate - feeRate < 1 issues no bumpfee call and
\* leaves the store as it was; an entry created by the step itself and then
\* found below the increment is in the store after the step.  Both modes.
C6_SmallDeltaKeepsEntry ==
    [][ /\ \A t \in Txids :
             (Processing(t) /\ Tracked(t) /\ AgeMet(t) /\ DeltaOf(t) < Scale)
                => (last'.bump = "none" /\ txInfos' = txInfos
                    /\ cycleCalls' = cycleCalls)
        /\ (last'.op = "output" /\ last'.branch = "small")
             => (last'.bump = "none" /\ last'.txid \in DOMAIN txInfos')
      ]_vars

C6_Witness ==
    /\ config.IsBump
    /\ last.op = "output" /\ last.branch = "small" /\ ~last.created
    /\ last.txid \in DOMAIN txInfos
    /\ lastBlockHeight # -1

\* C7: with apply disabled no step issues bumpfee, and a step that
\* evaluates a qualifying transaction removes its entry from the store.
C7_DryRunRemovesWithoutCall ==
    [][ ~config.IsBump =>
          /\ last'.bump \notin BumpAnswers
          /\ \A t \in Txids :
               (Processing(t) /\ Qualifies(t))
                  => (t \notin DOMAIN txInfos' /\ last'.bump = "dry")
          /\ (last'.op = "output" /\ last'.branch = "bump")
               => last'.txid \notin DOMAIN txInfos'
      ]_vars

C7_Witness ==
    /\ ~config.IsBump
    /\ last.op = "output" /\ last.bump = "dry" /\ ~last.created
    /\ last.txid \notin DOMAIN txInfos

\* C8: with apply enabled, a bumpfee call that fails with an error leaves
\* the store as it was (an entry created by the same step stays), and the
\* next step that processes the txid while it still qualifies issues
\* bumpfee for it again.
C8_FailedBumpIsRetried ==
    [][ config.IsBump =>
          /\ (last'.op = "output" /\ last'.bump = "error")
               => /\ last'.txid \in DOMAIN txInfos'
                  /\ Tracked(last'.txid) => txInfos' = txInfos
          /\ \A t \in failed :
               (Processing(t) /\ Qualifies(t))
                  => (last'.txid = t /\ last'.bump \in BumpAnswers
                      /\ last'.retry)
      ]_vars

C8_Witness ==
    /\ config.IsBump
    /\ last.op = "output" /\ last.retry /\ last.bump \in BumpAnswers
    /\ cycleCalls[last.txid] = 1

\* C9: with apply enabled, a step whose bumpfee call succeeds removes the
\* original txid and adds nothing: the replacement txid is not tracked by
\* it, and the other entries are as before.
C9_SuccessRemovesAndDoesNotTrackNew ==
    [][ (config.IsBump /\ last'.op = "output" /\ last'.bump = "ok")
          => /\ last'.txid \notin DOMAIN txInfos'
             /\ DOMAIN txInfos' = DOMAIN txInfos \ {last'.txid}
             /\ \A t \in DOMAIN txInfos' : txInfos'[t] = txInfos[t]
      ]_vars

C9_Witness ==
    /\ config.IsBump
    /\ last.op = "output" /\ last.bump = "ok"
    /\ last.txid \notin DOMAIN txInfos
    /\ last.newTxid \in Txids /\ last.newTxid \notin DOMAIN txInfos

\* C10: an entry leaves the store only in a step that processes its txid
\* at an age that meets the threshold and ends in a successful bumpfee or a
\* simulated bump; every other step keeps every entry as it is.  So a
\* tracked transaction that is no longer scanned stays for ever.
C10_RemovedOnlyByEscalation ==
    [][ \A t \in DOMAIN txInfos :
          \/ (t \in DOMAIN txInfos' /\ txInfos'[t] = txInfos[t])
          \/ /\ Processing(t) /\ Qualifies(t)
             /\ last'.txid = t /\ last'.bump \in {"ok", "dry"}
             /\ t \notin DOMAIN txInfos'
      ]_vars

\* A cycle of a dry run has ended with t1 tracked and qualifying since an
\* earlier cycle: no scan of this cycle carried it, and it is still there.
\* (C10)
C10_Witness ==
    /\ ~config.IsBump /\ config.BumpfeeBlockInterval = 1
    /\ last.op = "endcycle"
    /\ Qualifies("t1")
    /\ txInfos["t1"].FirstBlockHeight < currentBlockCount

C12_EntryImmutableWhileTracked ==
    [][ \A t \in DOMAIN txInfos :
          /\ t \in DOMAIN txInfos' => txInfos'[t] = txInfos[t]
          /\ txInfos[t].CurrentFeerate = Feerate(TxFee(t), TxHexLen(t))
          /\ Processing(t) =>
               /\ last'.txid = t
               /\ last'.gettx = "none" /\ ~last'.created
               /\ last'.branch = "bump" =>
                    last'.rate = Round(Candidate(Feerate(TxFee(t), TxHexLen(t)),
                                         config.FeeBumpAmount, config.FeeCap))
      ]_vars

\* An entry created in an earlier cycle has just gone through the
\* escalation test again, without gettransaction, and is still tracked.
\* (C12)
C12_Witness ==
    /\ last.op = "output" /\ last.gettx = "none"
    /\ last.branch \in {"small", "bump"}
    /\ last.txid \in DOMAIN txInfos
    /\ txInfos[last.txid].FirstBlockHeight < currentBlockCount

\* C13: every output whose txid is tracked at an age of at least
\* BumpfeeBlockInterval blocks goes through the escalation test (the
\* increment gate) in that step, whatever earlier cycles did with it; and
\* with an interval of 0 or less the step that creates an entry runs the
\* test as well.
C13_AgedEntryIsTestedEveryCycle ==
    [][ \A t \in Txids :
          Processing(t) =>
            /\ (Tracked(t) /\ AgeMet(t)) =>
                   (last'.txid = t /\ last'.branch \in {"small", "bump"})
            /\ (last'.created /\ config.BumpfeeBlockInterval <= 0) =>
                   (last'.txid = t /\ last'.branch \in {"small", "bump"})
      ]_vars

\* With an interval of 0, an entry that was tested by the cycle that
\* created it has been tested again by a later cycle. (C13)
C13_Witness ==
    /\ config.BumpfeeBlockInterval = 0
    /\ last.op = "output" /\ ~last.created
    /\ last.branch \in {"small", "bump"}
    /\ last.txid \in DOMAIN txInfos
    /\ txInfos[last.txid].FirstBlockHeight = lastBlockHeight
    /\ lastBlockHeight < currentBlockCount

\* C14 as claimed: a txid whose gettransaction failed (error, result that
\* is no object, no numeric fee, no string hex) in a cycle has no entry
\* for the rest of that cycle.
C14_FailedFetchCreatesNothingThisCycle ==
    \A t \in gtFailed : t \notin DOMAIN txInfos

\* C15: a listunspent call that errors or answers no list leaves the store
\* and the output queue as they are and hands the turn to the next wallet
\* of the enumeration; within a cycle the wallets are taken one by one in
\* order, each with its own listunspent call, and the cycle ends only after
\* the last one.
C15_FailedScanSkipsOnlyThatWallet ==
    [][ /\ (pc = "wallets" /\ last'.op = "scan"
              /\ last'.gettx \in {"error", "notlist"}) =>
              /\ txInfos' = txInfos /\ unspent' = unspent
              /\ pc' = "wallets" /\ wi' = wi + 1
        /\ (pc = "wallets" /\ wi <= Len(wallets)) =>
              /\ last'.op = "scan"
              /\ wallets[wi] \in WalletNames => last'.wallet = wallets[wi]
        /\ (pc \in {"wallets", "outputs"} /\ wi' # wi) =>
              \/ wi' = wi + 1
              \/ last'.op = "endcycle" /\ wi = Len(wallets) + 1
      ]_vars

\* w1's listunspent has just failed with entries in the store, and w2 is
\* next in the same cycle. (C15)
C15_Witness ==
    /\ last.op = "scan" /\ last.gettx \in {"error", "notlist"}
    /\ last.wallet = "w1"
    /\ pc = "wallets" /\ wi = 2 /\ wallets = <<"w1", "w2">>
    /\ txInfos # EmptyStore

\* C16: listwallets is called in the one step that leaves startup, and
\* startup is never entered again; after it the wallet list never changes;
\* every listunspent call and every processed output is for the wallet at
\* the cycle's index in that list, so a wallet name that is not in the
\* startup answer is never scanned.
C16_WalletSetFixedAtStartup ==
    [][ /\ last'.op = "listwallets" => (pc = "start" /\ pc' = "poll")
        /\ pc # "start" => (wallets' = wallets /\ pc' # "start")
        /\ (last'.op \in {"scan", "output"} /\ last'.wallet # "-") =>
              /\ wi \in 1..Len(wallets)
              /\ last'.wallet = wallets[wi]
      ]_vars

\* In a cycle after the first, w1 is scanned from a startup answer that
\* named only w1 (beside an entry that is no string); w2 is not in it.
\* (C16)
C16_Witness ==
    /\ wallets = <<NotString, "w1">>
    /\ lastBlockHeight # -1
    /\ last.op = "scan" /\ last.wallet = "w1" /\ last.gettx = "ok"

\* C17 as claimed: after a listwallets call that failed (an error, or a
\* result that is no list) the poll loop makes up for it: some later cycle
\* scans a wallet.
C17_FailedEnumerationIsRetried ==
    (last.op = "listwallets" /\ last.gettx \in {"error", "notlist"})
        ~> (last.op = "scan")

\* C18 as claimed: every getblockcount call but the first is made right
\* after the sleep of BlockCheckInterval seconds, so a sleep lies between any two
\* consecutive getblockcount calls, also when the earlier one errored or
\* answered no number.
C18_SleepBetweenHeightCalls ==
    [][ last'.op = "getblockcount" => last.op \in {"listwallets", "sleep"}
      ]_vars

\* C19: whatever the RPCs answer (errors and malformed results of
\* listwallets, getblockcount, listunspent, gettransaction and bumpfee
\* included), the poll loop never stops: again and again it comes back to
\* the head of the loop and calls getblockcount.
C19_PollLoopNeverStops == []<>(last.op = "getblockcount")

\* A new cycle has started although bumpfee errored for a tracked
\* transaction, after a listwallets answer with a name that is no string.
\* (C19)
C19_Witness ==
    /\ last.op = "getblockcount" /\ last.gettx = "ok"
    /\ failed # {}
    /\ wallets = <<NotString, "w1">>
    /\ lastBlockHeight # -1

\* C20: a step emits age reports only when the cursor lastBlockHeight is
\* not -1 (so never before the first cycle has ended) and differs from the
\* current height; every report is for an entry of the store (tracked
\* before the step, or created by it) whose WalletName is the wallet being
\* processed, and carries currentBlockCount - FirstBlockHeight.
C20_AgeReportsOnNewBlockForOwnWallet ==
    [][ (pc = "outputs" /\ last'.op = "output" /\ last'.reports # {}) =>
          /\ lastBlockHeight # -1
          /\ currentBlockCount # lastBlockHeight
          /\ last'.wallet = wallets[wi]
          /\ \A r \in last'.reports :
               \/ /\ r[1] \in DOMAIN txInfos
                  /\ txInfos[r[1]].WalletName = last'.wallet
                  /\ r[2] = currentBlockCount
                              - txInfos[r[1]].FirstBlockHeight
               \/ /\ last'.created /\ r[1] = last'.txid
                  /\ r[1] \notin DOMAIN txInfos
                  /\ r[2] = 0
      ]_vars

\* A report of an age of one block or more has been emitted for the wallet
\* being processed while the store also holds an entry of the other
\* wallet, which is not reported. (C20)
C20_Witness ==
    /\ last.op = "output"
    /\ \E r \in last.reports : r[2] >= 1
    /\ \E t \in DOMAIN txInfos :
         /\ txInfos[t].WalletName # last.wallet
         /\ \A r \in last.reports : r[1] # t

\* C21: for every tracked rate r, increment a and cap c the candidate rate
\* that the escalation test uses is min(r + a, c).
C21_CandidateIsMinOfSumAndCap ==
    (calc.done /\ calc.op = "candidate")
        => calc.out = Min(calc.x + calc.y, calc.z)

\* The candidate of a negative increment below the cap: the sum, which is
\* less than the tracked rate. (C21)
C21_Witness ==
    /\ calc.done /\ calc.op = "candidate"
    /\ calc.y < 0 /\ calc.x + calc.y < calc.z
    /\ calc.out = calc.x + calc.y

\* C22: a tracked entry whose candidate rate is less than 1 above its rate
\* stays in the store unchanged through every step, and every step that
\* processes it at a height that meets the age threshold takes the
\* "no bump" branch again: no bumpfee call, no simulated bump.  So once the
\* branch is taken it is taken in every later cycle of that kind.
C22_SmallDeltaBranchRepeats ==
    [][ \A t \in DOMAIN txInfos :
          DeltaOf(t) < Scale =>
            /\ t \in DOMAIN txInfos' /\ txInfos'[t] = txInfos[t]
            /\ (Processing(t) /\ AgeMet(t)) =>
                  /\ last'.txid = t /\ last'.branch = "small"
                  /\ last'.bump = "none"
                  /\ cycleCalls' = cycleCalls /\ simNow' = simNow
      ]_vars

\* An entry that took the "no bump" branch in the cycle that created it
\* (interval 0) has taken it again in a later cycle, at a new height.
\* (C22)
C22_Witness ==
    /\ config.BumpfeeBlockInterval = 0
    /\ last.op = "output" /\ last.branch = "small" /\ ~last.created
    /\ last.txid \in DOMAIN txInfos
    /\ DeltaOf(last.txid) < Scale
    /\ txInfos[last.txid].FirstBlockHeight = 0
    /\ lastBlockHeight = 0 /\ currentBlockCount = 1

\* C23: the store is a map from txids, so a txid has at most one entry;
\* what keeps that entry the one that was tracked first is that a step
\* inserts an entry only for the txid of the output in hand and only when
\* the store has none for it: an output of a tracked txid, whether of the
\* same scan or of another wallet's scan, leaves the entry as it is or
\* removes it, and never replaces it.
C23_AtMostOneEntryPerTxid ==
    [][ /\ DOMAIN txInfos' \subseteq Txids
        /\ \A t \in DOMAIN txInfos' :
             \/ t \in DOMAIN txInfos /\ txInfos'[t] = txInfos[t]
             \/ /\ ~Tracked(t) /\ Processing(t)
                /\ last'.created /\ last'.txid = t
        /\ (last'.op = "output" /\ last'.created) =>
              (Processing(last'.txid) /\ ~Tracked(last'.txid))
      ]_vars

\* An output of w2's scan carried a txid that is tracked for w1: no second
\* entry was made, the one entry is still w1's. (C23)
C23_Witness ==
    /\ last.op = "output" /\ last.wallet = "w2" /\ ~last.created
    /\ last.txid \in DOMAIN txInfos
    /\ txInfos[last.txid].WalletName = "w1"

\* C24 as claimed: the fee_rate of every bumpfee call (an integer count of
\* sat/vB) does not exceed FeeCap.
C24_SubmittedRateWithinCap ==
    (last.op = "output" /\ last.bump \in BumpAnswers)
        => last.rate * Scale <= config.FeeCap

\* C25 as claimed: the fee_rate of every bumpfee call is at least 1 above
\* the CurrentFeerate of the entry it is issued for (the entry found in the
\* store, or the one the step has just created from gettransaction).
C25_SubmittedRateAtLeastOneAbove ==
    [][ \A t \in Txids :
          (Processing(t) /\ last'.txid = t /\ last'.bump \in BumpAnswers) =>
              last'.rate * Scale
                 - (IF Tracked(t) THEN txInfos[t].CurrentFeerate
                    ELSE Feerate(TxFee(t), TxHexLen(t))) >= 1 * Scale
      ]_vars

\* C26: with apply enabled, a bumpfee call answered without an RPC error
\* by a result that is no object, or by an object without a string txid,
\* leaves the entry it was issued for in the store and the store as it was
\* before the call; and every later step that processes a tracked txid
\* that qualifies issues bumpfee for it, whatever the earlier answers were.
C26_MalformedBumpAnswerKeepsEntry ==
    [][ config.IsBump =>
          \A t \in Txids :
            Processing(t) =>
              /\ (last'.txid = t /\ last'.bump \in {"notobject", "notxid"}) =>
                    /\ t \in DOMAIN txInfos'
                    /\ Tracked(t) => txInfos' = txInfos
                    /\ \A o \in DOMAIN txInfos' \ {t} :
                         o \in DOMAIN txInfos /\ txInfos'[o] = txInfos[o]
              /\ Qualifies(t) =>
                    (last'.txid = t /\ last'.bump \in BumpAnswers)
      ]_vars

\* In a cycle after the one that created the entry, a bumpfee call for it
\* has been answered without a txid, it is not the first call that was
\* answered without an error, and the entry is still tracked. (C26)
C26_Witness ==
    /\ config.IsBump
    /\ last.op = "output" /\ last.bump \in {"notobject", "notxid"}
    /\ ~last.created
    /\ last.txid \in DOMAIN txInfos
    /\ okCalls[last.txid] = 2
    /\ txInfos[last.txid].FirstBlockHeight < currentBlockCount

\* C27: the cursor lastBlockHeight changes only in the step that ends a
\* cycle, which sets it to the height that cycle's getblockcount fetched
\* (so it is -1 until a cycle has ended, and never -1 afterwards); a
\* getblockcount call that errors or answers no number changes neither the
\* cursor nor the store and returns to the head of the loop, and the
\* wallet loop with its listunspent, gettransaction and bumpfee calls is
\* entered only from a getblockcount call that answered a height.
C27_CursorFollowsCompletedCycles ==
    [][ /\ lastBlockHeight' # lastBlockHeight => last'.op = "endcycle"
        /\ last'.op = "endcycle" =>
              /\ lastBlockHeight' = currentBlockCount
              /\ lastBlockHeight' = chain /\ lastBlockHeight' >= 0
        /\ (pc = "poll" /\ last'.op = "getblockcount"
              /\ last'.gettx \in {"error", "notnumber"}) =>
              /\ lastBlockHeight' = lastBlockHeight
              /\ txInfos' = txInfos
              /\ currentBlockCount' = currentBlockCount
              /\ pc' = "poll"
        /\ (pc = "poll" /\ pc' # "poll") =>
              /\ last'.op = "getblockcount" /\ last'.gettx = "ok"
              /\ currentBlockCount' = chain'
        /\ last'.op \in {"scan", "output"} => pc \in {"wallets", "outputs"}
      ]_vars

\* After a cycle that ended at height 0 with entries tracked, a
\* getblockcount call has failed: the cursor and the store are as they
\* were. (C27)
C27_Witness ==
    /\ last.op = "getblockcount" /\ last.gettx \in {"error", "notnumber"}
    /\ lastBlockHeight = 0 /\ currentBlockCount = 0
    /\ txInfos # EmptyStore
    /\ pc = "poll"

\* C28: with apply enabled, on a ledger that keeps answering getblockcount
\* with a height, keeps carrying the transaction in a scan and comes to
\* answer bumpfee well, a tracked transaction that has reached the age
\* threshold with candidateRate - feeRate >= 1 is eventually removed from
\* the store by a bumpfee call that succeeded.
C28_QualifyingEntryIsEventuallyBumped ==
    (config.IsBump /\ Qualifies("t1"))
        ~> (/\ last.op = "output" /\ last.txid = "t1" /\ last.bump = "ok"
            /\ ~Tracked("t1"))

\* t1 has been removed by a bumpfee call that succeeded after an earlier
\* call for it had errored. (C28)
C28_Witness ==
    /\ config.IsBump
    /\ last.op = "output" /\ last.txid = "t1" /\ last.bump = "ok"
    /\ last.retry
    /\ ~Tracked("t1")

\* C29 as claimed: a bumpfee call for a tracked txid goes to the endpoint
\* of the wallet named in its entry: the wallet whose endpoint the step
\* calls (the wallet being scanned) is the entry's WalletName.
C29_BumpGoesToOwningWallet ==
    [][ \A t \in DOMAIN txInfos :
          (Processing(t) /\ last'.txid = t /\ last'.bump \in BumpAnswers)
              => last'.wallet = txInfos[t].WalletName
      ]_vars

\* C30 as claimed: in the send-many tool sendCount never exceeds
\* maxSendCount.
C30_SendCountWithinMaxSendCount ==
    sender.sendCount <= sender.config.MaxSendCount

\* C30, amended: sendCount never exceeds maxSendCount when maxSendCount is
\* not negative, and stays 0 when it is; with maxSendCount <= 0 no sendmany
\* is issued and no wallet is looked at; once sendCount has reached a
\* positive maxSendCount the process has exited; and a wallet step counts
\* a send, by one, exactly when its sendmany call succeeded (isSend) or it
\* simulated the send (isSend off).
C30_SendCountWithinLimit ==
    /\ [] LET max == sender.config.MaxSendCount
          IN /\ sender.sendCount >= 0
             /\ sender.sendCount <= IF max < 0 THEN 0 ELSE max
             /\ max <= 0 =>
                  /\ sender.calls = 0
                  /\ sender.sendCount = 0
                  /\ sender.pc \in {"start", "loop", "done", "fatal"}
             /\ (max >= 1 /\ sender.sendCount >= max) => sender.pc = "exit"
             /\ sender.pc = "exit" => sender.sendCount = max
    /\ [][ LET counts == IF sender.config.IsSend THEN "ok" ELSE "dry"
           IN /\ sender'.sendCount # sender.sendCount =>
                   /\ sender.pc = "wallets"
                   /\ sender'.sendCount = sender.sendCount + 1
                   /\ sender'.last.sent = counts
                   /\ sender.config.IsSend =>
                        sender'.calls = Bump1(sender.calls)
              /\ (sender.pc = "wallets" /\ sender'.last.op = "wallet"
                    /\ sender'.last.sent \in {"ok", "dry"}) =>
                   /\ sender'.last.sent = counts
                   /\ sender'.sendCount = sender.sendCount + 1
         ]_vars

\* With isSend and maxSendCount = 2, a sendmany call has succeeded that
\* made sendCount 2, and the process has exited. (C30)
C30_Witness ==
    /\ sender.config.IsSend
    /\ sender.config.MaxSendCount = 2
    /\ sender.sendCount = 2
    /\ sender.calls = 2
    /\ sender.last.sent = "ok"
    /\ sender.pc = "exit"

\* The serialized size of the distinct transactions of a set of txids.
RECURSIVE DistinctSize(_)
DistinctSize(S) ==
    IF S = {} THEN 0
    ELSE LET t == CHOOSE x \in S : TRUE
         IN (TxHexLen(t) \div 2) + DistinctSize(S \ {t})

\* C31 as claimed: in the send-many tool a sendmany call is issued for a
\* wallet only when the total serialized size of the distinct transactions
\* of the outputs its listunspent answer carried is below maxUnconfSize,
\* whatever gettransaction answered for them and however many outputs
\* carry one txid.
C31_SendOnlyBelowMaxUnconfSize ==
    (sender.last.op = "wallet" /\ sender.last.sent \in SendManyAnswers)
        => DistinctSize(sender.last.txids) < sender.config.MaxUnconfSize

====
